---------------------------- MODULE Spec2Model ----------------------------
(***************************************************************************)
(* The App component of src/App.tsx: its eight useState cells, the         *)
(* language effect, the two search handlers and the completion callbacks   *)
(* of the geolocation request and of the two provider calls.               *)
(*                                                                         *)
(* One action is one run of a handler or of a callback continuation up to  *)
(* its next await.  The setState calls made during one such run are        *)
(* applied together (React batches the updates of one event handler and    *)
(* of one promise continuation into a single commit), so the state after   *)
(* the action is the next committed render.  A passive effect caused by a  *)
(* discrete event (the language picker) is flushed before the next event,  *)
(* so setLanguage and the effect it triggers form one step.                *)
(***************************************************************************)
EXTENDS Integers, Sequences, FiniteSets, TLC

(* ------------------------------ bounds --------------------------------- *)

\* longest manual-location text typed into the input
MaxQueryLen == 1
\* longest list a provider call returns
MaxResults == 1
\* most requests outstanding at once when the handlers are called directly
MaxOverlap == 2

(* ------------------------------ values --------------------------------- *)

\* null / undefined
Null == <<>>

\* characters of the manual-location text: two kinds of white space that
\* String.prototype.trim removes, and one that it keeps
WhiteSpace == {" ", "\t"}
Chars == WhiteSpace \cup {"p"}

RECURSIVE SeqsUpTo(_, _)
SeqsUpTo(S, n) ==
    IF n = 0 THEN {<<>>}
    ELSE LET shorter == SeqsUpTo(S, n - 1)
         IN  shorter \cup {Append(s, x) : s \in {t \in shorter : Len(t) = n - 1}, x \in S}

Texts == SeqsUpTo(Chars, MaxQueryLen)

\* Restaurant records the provider can return
Restaurant ==
    { [name |-> "r1", cuisine |-> "c1", description |-> "d1"],
      [name |-> "r2", cuisine |-> "c2", description |-> "d2"] }

Responses == SeqsUpTo(Restaurant, MaxResults)

\* Coordinates the browser can report
Coordinates ==
    { [latitude |-> 37, longitude |-> -122],
      [latitude |-> 48, longitude |-> 2] }

\* GeolocationPositionError.code and its three named constants
PERMISSION_DENIED == 1
POSITION_UNAVAILABLE == 2
TIMEOUT == 3
GeoErrorCodes == 0 .. 4

\* language codes handed to setLanguage: the default, the right-to-left one,
\* another one the table has, and one the table does not have
LanguageCodes == {"en", "ar", "fr", "xx"}

(* ------------------------ localization table --------------------------- *)

\* the fields of a UIText record that App reads
TextKeys ==
    { "title", "subtitle", "loadingButton", "findButton", "searchButton",
      "manualLocationPrompt", "manualLocationPlaceholder", "loaderMessage",
      "welcomeMessage",
      "locationNotSupported", "locationPermissionDenied", "locationUnavailable",
      "locationTimeout", "locationError", "manualLocationError", "fetchError" }

\* codes the table has an entry for
TableCodes == {"en", "ar", "fr"}

\* UI_TEXT[code][key]: the text of key in the language code, a text of its own
\* for every code and key
UI_TEXT == [c \in TableCodes |-> [k \in TextKeys |-> <<c, k>>]]

\* UI_TEXT[code] as JavaScript evaluates it: undefined for a missing property
Lookup(code) == IF code \in DOMAIN UI_TEXT THEN UI_TEXT[code] ELSE Null

\* a || b on values that are an object or undefined
OrElse(a, b) == IF a = Null THEN b ELSE a

(* ------------------------------ trim ----------------------------------- *)

RECURSIVE TrimStart(_)
TrimStart(s) ==
    IF s # <<>> /\ Head(s) \in WhiteSpace THEN TrimStart(Tail(s)) ELSE s

RECURSIVE TrimEnd(_)
TrimEnd(s) ==
    IF s # <<>> /\ s[Len(s)] \in WhiteSpace
    THEN TrimEnd(SubSeq(s, 1, Len(s) - 1))
    ELSE s

\* faulty variant of Trim: the guard tests the raw text
TrimNothing(s) == s

\* String.prototype.trim
Trim(s) == TrimEnd(TrimStart(s))

(* ------------------------------ state ---------------------------------- *)

VARIABLES
    language,        \* useState<string>('en')
    restaurants,     \* useState<Restaurant[]>([])
    loading,         \* useState<boolean>(false)
    error,           \* useState<string | null>(null)
    userLocation,    \* useState<Coordinates | null>(null)
    uiText,          \* useState(UI_TEXT['en'])
    manualLocation,  \* useState<string>('')
    showManualInput, \* useState<boolean>(false)
    dir,             \* document.documentElement.dir
    geolocation,     \* whether navigator.geolocation is present
    inflight,        \* requests issued and not yet completed, in issue order
    event,           \* the handler or callback that ran last, with its input
    produced,        \* whether some search has stored results or an error
    overlapped       \* whether the latest search was started with one in flight

session == <<restaurants, loading, error, userLocation, manualLocation, showManualInput>>
vars == <<language, restaurants, loading, error, userLocation, uiText,
          manualLocation, showManualInput, dir, geolocation, inflight, event,
          produced, overlapped>>

\* a request in flight: what was asked, and the language and uiText of the
\* render whose closure issued it
Request(kind, coords, text) ==
    [kind |-> kind, coords |-> coords, text |-> text,
     language |-> language, uiText |-> uiText]

\* the record of the handler or callback op that ran, before its input is
\* filled in: a language code, a failure code, coordinates, a provider
\* response or a manual-location text
Event(op) ==
    [op |-> op, code |-> "", geoCode |-> -1, coords |-> Null,
     response |-> <<>>, text |-> <<>>]

RemoveAt(s, i) == SubSeq(s, 1, i - 1) \o SubSeq(s, i + 1, Len(s))

ReplaceAt(s, i, x) == [s EXCEPT ![i] = x]

\* history of the session: an error message or a non-empty list in the next
\* render makes it one in which a search has produced something; a request
\* dispatched while another is outstanding makes the searches overlap
Observe ==
    /\ produced' = (produced \/ error' # Null \/ restaurants' # <<>>)
    /\ overlapped' = IF Len(inflight') > Len(inflight) THEN inflight # <<>> ELSE overlapped

(* --------------------------- language effect --------------------------- *)

\* faulty variant of LanguageEffect: the direction is set for 'ar' and never
\* set back
LanguageEffectStickyRtl(code) ==
    /\ uiText' = OrElse(Lookup(code), Lookup("en"))
    /\ dir' = IF code = "ar" THEN "rtl" ELSE dir

\* the body of the effect on [language]
LanguageEffect(code) ==
    /\ uiText' = OrElse(Lookup(code), Lookup("en"))
    /\ dir' = IF code = "ar" THEN "rtl" ELSE "ltr"

\* state after the first render and its effect
Init ==
    /\ language = "en"
    /\ restaurants = <<>>
    /\ loading = FALSE
    /\ error = Null
    /\ userLocation = Null
    /\ uiText = OrElse(Lookup("en"), Lookup("en"))
    /\ manualLocation = <<>>
    /\ showManualInput = FALSE
    /\ dir = "ltr"
    /\ geolocation \in BOOLEAN
    /\ inflight = <<>>
    /\ event = Event("mount")
    /\ produced = FALSE
    /\ overlapped = FALSE

\* LanguageSelector's onLanguageChange = setLanguage; a change to the same
\* code is no state change and runs no effect
SetLanguage ==
    \E code \in LanguageCodes :
        /\ code # language
        /\ language' = code
        /\ LanguageEffect(code)
        /\ event' = [Event("setLanguage") EXCEPT !.code = code]
        /\ UNCHANGED <<session, geolocation, inflight>>
        /\ Observe

(* --------------------------- automatic search -------------------------- *)

\* faulty variant of HandleFindRestaurants: the short-circuit forgets
\* setLoading(false)
HandleFindRestaurantsStaysLoading ==
    /\ restaurants' = <<>>
    /\ IF ~geolocation
       THEN /\ error' = uiText["locationNotSupported"]
            /\ showManualInput' = TRUE
            /\ loading' = TRUE
            /\ inflight' = inflight
       ELSE /\ error' = Null
            /\ showManualInput' = FALSE
            /\ loading' = TRUE
            /\ inflight' = Append(inflight, Request("geo", Null, <<>>))
    /\ event' = Event("findRestaurants")
    /\ UNCHANGED <<language, userLocation, uiText, manualLocation, dir, geolocation>>

\* faulty variant of HandleFindRestaurants: the reset forgets
\* setShowManualInput(false)
HandleFindRestaurantsKeepsPrompt ==
    /\ restaurants' = <<>>
    /\ IF ~geolocation
       THEN /\ error' = uiText["locationNotSupported"]
            /\ showManualInput' = TRUE
            /\ loading' = FALSE
            /\ inflight' = inflight
       ELSE /\ error' = Null
            /\ showManualInput' = showManualInput
            /\ loading' = TRUE
            /\ inflight' = Append(inflight, Request("geo", Null, <<>>))
    /\ event' = Event("findRestaurants")
    /\ UNCHANGED <<language, userLocation, uiText, manualLocation, dir, geolocation>>

\* handleFindRestaurants: the reset, then the capability check, then the
\* one-shot location request
HandleFindRestaurants ==
    /\ restaurants' = <<>>
    /\ IF ~geolocation
       THEN /\ error' = uiText["locationNotSupported"]
            /\ showManualInput' = TRUE
            /\ loading' = FALSE
            /\ inflight' = inflight
       ELSE /\ error' = Null
            /\ showManualInput' = FALSE
            /\ loading' = TRUE
            /\ inflight' = Append(inflight, Request("geo", Null, <<>>))
    /\ event' = Event("findRestaurants")
    /\ UNCHANGED <<language, userLocation, uiText, manualLocation, dir, geolocation>>

\* the find button, disabled={loading}
ClickFind ==
    /\ ~loading
    /\ HandleFindRestaurants
    /\ Observe

\* faulty variant of GeoSuccess: the coordinates are stored the first time only
GeoSuccessSetOnce ==
    \E i \in 1 .. Len(inflight), c \in Coordinates :
        /\ inflight[i].kind = "geo"
        /\ userLocation' = IF userLocation = Null THEN c ELSE userLocation
        /\ inflight' = ReplaceAt(inflight, i, [inflight[i] EXCEPT !.kind = "byCoordinates", !.coords = c])
        /\ event' = [Event("geoSuccess") EXCEPT !.coords = c]
        /\ UNCHANGED <<language, restaurants, loading, error, uiText,
                       manualLocation, showManualInput, dir, geolocation>>
        /\ Observe

\* the success callback of getCurrentPosition, up to its await: it stores the
\* coordinates and calls fetchRestaurants with the language of its closure
GeoSuccess ==
    \E i \in 1 .. Len(inflight), c \in Coordinates :
        /\ inflight[i].kind = "geo"
        /\ userLocation' = c
        /\ inflight' = ReplaceAt(inflight, i, [inflight[i] EXCEPT !.kind = "byCoordinates", !.coords = c])
        /\ event' = [Event("geoSuccess") EXCEPT !.coords = c]
        /\ UNCHANGED <<language, restaurants, loading, error, uiText,
                       manualLocation, showManualInput, dir, geolocation>>
        /\ Observe

\* faulty variant of GeoErrorKey: the TIMEOUT case is missing
GeoErrorKeyNoTimeout(code) ==
    CASE code = PERMISSION_DENIED    -> "locationPermissionDenied"
      [] code = POSITION_UNAVAILABLE -> "locationUnavailable"
      [] OTHER                       -> "locationError"

\* the switch on geoError.code: the field of uiText it selects
GeoErrorKey(code) ==
    CASE code = PERMISSION_DENIED    -> "locationPermissionDenied"
      [] code = POSITION_UNAVAILABLE -> "locationUnavailable"
      [] code = TIMEOUT              -> "locationTimeout"
      [] OTHER                       -> "locationError"

\* the error callback of getCurrentPosition
GeoError ==
    \E i \in 1 .. Len(inflight), code \in GeoErrorCodes :
        /\ inflight[i].kind = "geo"
        /\ error' = inflight[i].uiText[GeoErrorKey(code)]
        /\ showManualInput' = TRUE
        /\ loading' = FALSE
        /\ inflight' = RemoveAt(inflight, i)
        /\ event' = [Event("geoError") EXCEPT !.geoCode = code]
        /\ UNCHANGED <<language, restaurants, userLocation, uiText,
                       manualLocation, dir, geolocation>>
        /\ Observe

\* faulty variant of ProviderResolved: a resolved call drops every other
\* outstanding request
ProviderResolvedCancelsOthers(i, response) ==
    /\ restaurants' = response
    /\ loading' = FALSE
    /\ inflight' = <<>>
    /\ UNCHANGED <<language, error, userLocation, uiText,
                   manualLocation, showManualInput, dir, geolocation>>

\* what the continuation after a resolved provider call writes: try, finally
ProviderResolved(i, response) ==
    /\ restaurants' = response
    /\ loading' = FALSE
    /\ inflight' = RemoveAt(inflight, i)
    /\ UNCHANGED <<language, error, userLocation, uiText,
                   manualLocation, showManualInput, dir, geolocation>>

\* faulty variant of ProviderRejected: the catch block forgets setError
ProviderRejectedSilent(i) ==
    /\ loading' = FALSE
    /\ inflight' = RemoveAt(inflight, i)
    /\ UNCHANGED <<language, restaurants, error, userLocation, uiText,
                   manualLocation, showManualInput, dir, geolocation>>

\* faulty variant of ProviderRejected: setLoading(false) sits in the try block
\* instead of a finally block
ProviderRejectedNoFinally(i) ==
    /\ error' = inflight[i].uiText["fetchError"]
    /\ inflight' = RemoveAt(inflight, i)
    /\ UNCHANGED <<language, restaurants, loading, userLocation, uiText,
                   manualLocation, showManualInput, dir, geolocation>>

\* faulty variant of ProviderRejected: the catch block reports the failure and
\* leaves the call outstanding for another attempt
ProviderRejectedRetry(i) ==
    /\ error' = inflight[i].uiText["fetchError"]
    /\ UNCHANGED <<language, restaurants, loading, userLocation, uiText,
                   manualLocation, showManualInput, dir, geolocation, inflight>>

\* faulty variant of ProviderRejected: the message is read from the current
\* uiText instead of the one of the closure
ProviderRejectedCurrentText(i) ==
    /\ error' = uiText["fetchError"]
    /\ loading' = FALSE
    /\ inflight' = RemoveAt(inflight, i)
    /\ UNCHANGED <<language, restaurants, userLocation, uiText,
                   manualLocation, showManualInput, dir, geolocation>>

\* what the continuation after a rejected provider call writes: catch, finally
ProviderRejected(i) ==
    /\ error' = inflight[i].uiText["fetchError"]
    /\ loading' = FALSE
    /\ inflight' = RemoveAt(inflight, i)
    /\ UNCHANGED <<language, restaurants, userLocation, uiText,
                   manualLocation, showManualInput, dir, geolocation>>

\* await fetchRestaurants(latitude, longitude, language) resolves
FetchRestaurantsResolved ==
    \E i \in 1 .. Len(inflight), response \in Responses :
        /\ inflight[i].kind = "byCoordinates"
        /\ ProviderResolved(i, response)
        /\ event' = [Event("fetchRestaurantsResolved") EXCEPT !.response = response]
        /\ Observe

\* await fetchRestaurants(latitude, longitude, language) rejects
FetchRestaurantsRejected ==
    \E i \in 1 .. Len(inflight) :
        /\ inflight[i].kind = "byCoordinates"
        /\ ProviderRejected(i)
        /\ event' = Event("fetchRestaurantsRejected")
        /\ Observe

(* ----------------------------- manual search --------------------------- *)

\* the input's onChange; the form is rendered when showManualInput && !loading
SetManualLocation ==
    \E text \in Texts :
        /\ showManualInput /\ ~loading
        /\ text # manualLocation
        /\ manualLocation' = text
        /\ event' = Event("setManualLocation")
        /\ UNCHANGED <<language, restaurants, loading, error, userLocation, uiText,
                       showManualInput, dir, geolocation, inflight>>
        /\ Observe

\* faulty variant of HandleManualSearch: the reset forgets setRestaurants([])
HandleManualSearchKeepsResults ==
    /\ IF Trim(manualLocation) = <<>>
       THEN /\ error' = uiText["manualLocationError"]
            /\ UNCHANGED <<restaurants, loading, inflight>>
       ELSE /\ loading' = TRUE
            /\ error' = Null
            /\ restaurants' = restaurants
            /\ inflight' = Append(inflight, Request("byQuery", Null, manualLocation))
    /\ event' = [Event("manualSearch") EXCEPT !.text = manualLocation]
    /\ UNCHANGED <<language, userLocation, uiText, manualLocation,
                   showManualInput, dir, geolocation>>

\* faulty variant of HandleManualSearch: the reset forgets setError(null)
HandleManualSearchKeepsError ==
    /\ IF Trim(manualLocation) = <<>>
       THEN /\ error' = uiText["manualLocationError"]
            /\ UNCHANGED <<restaurants, loading, inflight>>
       ELSE /\ loading' = TRUE
            /\ error' = error
            /\ restaurants' = <<>>
            /\ inflight' = Append(inflight, Request("byQuery", Null, manualLocation))
    /\ event' = [Event("manualSearch") EXCEPT !.text = manualLocation]
    /\ UNCHANGED <<language, userLocation, uiText, manualLocation,
                   showManualInput, dir, geolocation>>

\* faulty variant of HandleManualSearch: the guard also clears the results
HandleManualSearchGuardClears ==
    /\ IF Trim(manualLocation) = <<>>
       THEN /\ error' = uiText["manualLocationError"]
            /\ restaurants' = <<>>
            /\ UNCHANGED <<loading, inflight>>
       ELSE /\ loading' = TRUE
            /\ error' = Null
            /\ restaurants' = <<>>
            /\ inflight' = Append(inflight, Request("byQuery", Null, manualLocation))
    /\ event' = [Event("manualSearch") EXCEPT !.text = manualLocation]
    /\ UNCHANGED <<language, userLocation, uiText, manualLocation,
                   showManualInput, dir, geolocation>>

\* faulty variant of HandleManualSearch: the reset also hides the manual form
HandleManualSearchHidesPrompt ==
    /\ IF Trim(manualLocation) = <<>>
       THEN /\ error' = uiText["manualLocationError"]
            /\ UNCHANGED <<restaurants, loading, inflight, showManualInput>>
       ELSE /\ loading' = TRUE
            /\ error' = Null
            /\ restaurants' = <<>>
            /\ showManualInput' = FALSE
            /\ inflight' = Append(inflight, Request("byQuery", Null, manualLocation))
    /\ event' = [Event("manualSearch") EXCEPT !.text = manualLocation]
    /\ UNCHANGED <<language, userLocation, uiText, manualLocation, dir, geolocation>>

\* handleManualSearch up to its await: the guard on the trimmed text, then
\* the reset and the call of fetchRestaurantsByQuery
HandleManualSearch ==
    /\ IF Trim(manualLocation) = <<>>
       THEN /\ error' = uiText["manualLocationError"]
            /\ UNCHANGED <<restaurants, loading, inflight>>
       ELSE /\ loading' = TRUE
            /\ error' = Null
            /\ restaurants' = <<>>
            /\ inflight' = Append(inflight, Request("byQuery", Null, manualLocation))
    /\ event' = [Event("manualSearch") EXCEPT !.text = manualLocation]
    /\ UNCHANGED <<language, userLocation, uiText, manualLocation,
                   showManualInput, dir, geolocation>>

\* faulty variant of SubmitManual: the form is rendered whenever
\* showManualInput is set, also while loading
SubmitManualWhileLoading ==
    /\ showManualInput
    /\ HandleManualSearch
    /\ Observe

\* the form's onSubmit; the form is rendered when showManualInput && !loading
SubmitManual ==
    /\ showManualInput /\ ~loading
    /\ HandleManualSearch
    /\ Observe

\* await fetchRestaurantsByQuery(manualLocation, language) resolves
FetchByQueryResolved ==
    \E i \in 1 .. Len(inflight), response \in Responses :
        /\ inflight[i].kind = "byQuery"
        /\ ProviderResolved(i, response)
        /\ event' = [Event("fetchByQueryResolved") EXCEPT !.response = response]
        /\ Observe

\* await fetchRestaurantsByQuery(manualLocation, language) rejects
FetchByQueryRejected ==
    \E i \in 1 .. Len(inflight) :
        /\ inflight[i].kind = "byQuery"
        /\ ProviderRejected(i)
        /\ event' = Event("fetchByQueryRejected")
        /\ Observe

(* -------------------------------- render ------------------------------- *)

\* the condition under which the welcome placeholder is rendered
WelcomeRendered ==
    ~loading /\ error = Null /\ restaurants = <<>> /\ ~showManualInput

(* ---------------------------- specification ---------------------------- *)

Next ==
    \/ SetLanguage
    \/ ClickFind
    \/ GeoSuccess
    \/ GeoError
    \/ FetchRestaurantsResolved
    \/ FetchRestaurantsRejected
    \/ SetManualLocation
    \/ SubmitManual
    \/ FetchByQueryResolved
    \/ FetchByQueryRejected

Spec == Init /\ [][Next]_vars

\* the two handlers called directly, as entry points that any state admits:
\* without the disabled button and the hidden form (the language stays the
\* initial one: what a language change does to a search is the same with and
\* without overlap)
RunAutomaticSearch ==
    /\ Len(inflight) < MaxOverlap
    /\ HandleFindRestaurants
    /\ Observe

RunManualSearch ==
    /\ Len(inflight) < MaxOverlap
    /\ HandleManualSearch
    /\ Observe

NextAPI ==
    \/ RunAutomaticSearch
    \/ GeoSuccess
    \/ GeoError
    \/ FetchRestaurantsResolved
    \/ FetchRestaurantsRejected
    \/ SetManualLocation
    \/ RunManualSearch
    \/ FetchByQueryResolved
    \/ FetchByQueryRejected

SpecAPI == Init /\ [][NextAPI]_vars

\* every request that was issued completes: getCurrentPosition calls one of
\* its two callbacks, and a provider promise settles
Completion ==
    /\ WF_vars(GeoSuccess \/ GeoError)
    /\ WF_vars(FetchRestaurantsResolved \/ FetchRestaurantsRejected)
    /\ WF_vars(FetchByQueryResolved \/ FetchByQueryRejected)

LiveSpec == Spec /\ Completion

(* ------------------------------ properties ----------------------------- *)

\* the texts of one field of UIText, over the languages of the table
MessagesOf(key) == {UI_TEXT[c][key] : c \in DOMAIN UI_TEXT}

\* a text that is empty or white space only
IsBlank(text) == \A i \in 1 .. Len(text) : text[i] \in WhiteSpace

\* the provider calls among the requests s
ProviderCalls(s) == {i \in 1 .. Len(s) : s[i].kind \in {"byCoordinates", "byQuery"}}

\* how many of the flags are raised
Count(flags) == Cardinality({i \in 1 .. Len(flags) : flags[i]})

\* C1: in every reachable state at most one of loading, a non-null
\* errorMessage and a non-empty restaurants list holds.
C1_Exclusivity ==
    Count(<<loading, error # Null, restaurants # <<>> >>) <= 1

\* C2: a step that dispatches a request (a location request of an automatic
\* search, a provider call of a non-blank manual search) ends in a state with
\* restaurants empty and errorMessage null: the reset is not after the dispatch.
C2_ResetBeforeFetch ==
    [][Len(inflight') > Len(inflight) => (restaurants' = <<>> /\ error' = Null)]_vars

C2_Witness ==
    /\ event.op = "manualSearch"
    /\ Len(inflight) = 1 /\ inflight[1].kind = "byQuery"
    /\ restaurants = <<>> /\ error = Null /\ loading

\* C3: a manual search with a text that is empty after trimming issues no
\* provider call and leaves errorMessage = manualLocationError.
C3_ManualGuard ==
    [][(event'.op = "manualSearch" /\ IsBlank(event'.text))
         => (inflight' = inflight /\ error' = uiText'["manualLocationError"])]_vars

C3_Witness ==
    /\ event.op = "manualSearch"
    /\ event.text # <<>> /\ IsBlank(event.text)
    /\ error = uiText["manualLocationError"]
    /\ inflight = <<>>

\* the field of UIText the claim C4 names for a failure code
C4_Expected(code) ==
    IF code = 1 THEN "locationPermissionDenied"
    ELSE IF code = 2 THEN "locationUnavailable"
    ELSE IF code = 3 THEN "locationTimeout"
    ELSE "locationError"

\* C4: a failed location request sets errorMessage to the message of its
\* failure kind (four kinds, four different messages), sets showManualEntry,
\* clears loading and issues no provider call.
C4_Classification ==
    /\ \A j, k \in {"locationPermissionDenied", "locationUnavailable",
                    "locationTimeout", "locationError"} :
           j # k => MessagesOf(j) \cap MessagesOf(k) = {}
    /\ [][event'.op = "geoError"
            => /\ error' \in MessagesOf(C4_Expected(event'.geoCode))
               /\ showManualInput' /\ ~loading'
               /\ ProviderCalls(inflight') = {} /\ Len(inflight') < Len(inflight)]_vars

C4_Witness ==
    /\ event.op = "geoError" /\ event.geoCode = 3
    /\ error \in MessagesOf("locationTimeout")
    /\ showManualInput /\ ~loading /\ inflight = <<>>

\* C5: without geolocation capability an automatic search issues no request
\* and ends in the same step with errorMessage = locationNotSupported,
\* showManualEntry true, loading false and restaurants empty.
C5_CapabilityShortCircuit ==
    [][(event'.op = "findRestaurants" /\ ~geolocation)
         => /\ inflight' = inflight
            /\ error' = uiText'["locationNotSupported"]
            /\ showManualInput' /\ ~loading' /\ restaurants' = <<>>]_vars

C5_Witness ==
    /\ event.op = "findRestaurants" /\ ~geolocation
    /\ error = uiText["locationNotSupported"]
    /\ showManualInput /\ ~loading /\ restaurants = <<>> /\ inflight = <<>>

\* C6: in an automatic search loading stays true while byCoordinates is
\* outstanding, and when it resolves the state has restaurants = the response,
\* errorMessage null, showManualEntry false and loading false.
C6_AutomaticSuccess ==
    /\ (\E i \in 1 .. Len(inflight) : inflight[i].kind = "byCoordinates") => loading
    /\ event.op = "fetchRestaurantsResolved"
         => /\ restaurants = event.response
            /\ error = Null /\ ~showManualInput /\ ~loading

C6_Witness ==
    /\ event.op = "fetchRestaurantsResolved"
    /\ Len(event.response) = MaxResults /\ restaurants = event.response
    /\ error = Null /\ ~showManualInput /\ ~loading

\* C7: a failed provider call, on either path, ends with errorMessage =
\* fetchError, restaurants empty, loading false and no request re-issued; on
\* the automatic path showManualEntry stays false.
C7_ProviderFailure ==
    /\ event.op \in {"fetchRestaurantsRejected", "fetchByQueryRejected"}
         => /\ error \in MessagesOf("fetchError")
            /\ restaurants = <<>> /\ ~loading /\ inflight = <<>>
    /\ event.op = "fetchRestaurantsRejected" => ~showManualInput

C7_Witness ==
    /\ event.op = "fetchRestaurantsRejected"
    /\ error \in MessagesOf("fetchError")
    /\ restaurants = <<>> /\ ~loading /\ ~showManualInput /\ inflight = <<>>

\* C8: a non-blank manual search whose provider call succeeds ends with
\* restaurants = the response, errorMessage null and loading false, also when
\* the response is the empty list.
C8_ManualSuccess ==
    event.op = "fetchByQueryResolved"
      => (restaurants = event.response /\ error = Null /\ ~loading)

C8_Witness ==
    /\ event.op = "fetchByQueryResolved" /\ event.response = <<>>
    /\ restaurants = <<>> /\ error = Null /\ ~loading

\* C9: loading, non-empty restaurants and showManualEntry are pairwise
\* exclusive, and a non-null errorMessage never coexists with loading or with
\* non-empty restaurants.
C9_OnePrimaryPhase ==
    /\ Count(<<loading, restaurants # <<>>, showManualInput>>) <= 1
    /\ error # Null => (~loading /\ restaurants = <<>>)

\* C10: the resolved UI text is the table's text of the current code, or of
\* 'en' when the table lacks the code, with every field present; the direction
\* is right-to-left exactly when the current code is 'ar'.
C10_Localization ==
    /\ uiText = IF language \in TableCodes THEN UI_TEXT[language] ELSE UI_TEXT["en"]
    /\ DOMAIN uiText = TextKeys /\ \A k \in TextKeys : uiText[k] # Null
    /\ dir = "rtl" <=> language = "ar"

C10_Witness ==
    /\ event.op = "setLanguage" /\ language = "xx"
    /\ uiText = UI_TEXT["en"] /\ dir = "ltr"

\* C11: when every issued request completes, a state with loading true is
\* always followed by a state with loading false.
C11_LeavesLoading == loading ~> ~loading

C11_Witness ==
    /\ event.op = "fetchByQueryRejected"
    /\ ~loading /\ inflight = <<>> /\ error \in MessagesOf("fetchError")

\* the handlers that start a search, and the callbacks that end one
StartOps == {"findRestaurants", "manualSearch"}
TerminalOps ==
    {"geoError", "fetchRestaurantsResolved", "fetchRestaurantsRejected",
     "fetchByQueryResolved", "fetchByQueryRejected"}

\* the requests of one kind among the requests s
OfKind(s, kind) == {i \in 1 .. Len(s) : s[i].kind = kind}

\* C12: a request is issued only by a user action, one per action (a location
\* request by an automatic search, a provider call by a manual search); the
\* provider call of an automatic search is issued only by the location
\* success, in place of the location request; a terminating callback removes
\* its request, issues nothing, and is the one step that takes loading from
\* true to false, after which nothing of the search is outstanding.
C12_ExactlyOnce ==
    [][ /\ Len(inflight') > Len(inflight)
            => /\ event'.op \in StartOps
               /\ Len(inflight') = Len(inflight) + 1
               /\ inflight'[Len(inflight')].kind =
                      IF event'.op = "findRestaurants" THEN "geo" ELSE "byQuery"
        /\ event'.op = "findRestaurants" => ProviderCalls(inflight') = ProviderCalls(inflight)
        /\ Cardinality(OfKind(inflight', "byCoordinates")) > Cardinality(OfKind(inflight, "byCoordinates"))
            => event'.op = "geoSuccess"
        /\ event'.op = "geoSuccess"
            => /\ Len(inflight') = Len(inflight)
               /\ Cardinality(OfKind(inflight', "geo")) = Cardinality(OfKind(inflight, "geo")) - 1
               /\ Cardinality(OfKind(inflight', "byCoordinates"))
                      = Cardinality(OfKind(inflight, "byCoordinates")) + 1
        /\ event'.op \in TerminalOps
            => /\ Len(inflight') = Len(inflight) - 1
               /\ loading /\ ~loading' /\ inflight' = <<>>
        /\ (loading /\ ~loading') => event'.op \in TerminalOps
      ]_vars

C12_Witness ==
    /\ event.op = "geoError" /\ event.geoCode = 1
    /\ ~loading /\ inflight = <<>> /\ showManualInput

\* C14: in every reachable state with a location request or a provider call
\* in flight, restaurants is empty.
C14_NoStaleResults == inflight # <<>> => restaurants = <<>>

C14_Witness ==
    /\ Len(inflight) = 1 /\ inflight[1].kind = "byCoordinates"
    /\ userLocation = inflight[1].coords /\ restaurants = <<>> /\ loading

\* C16: the stored coordinates change only in the location success callback,
\* which overwrites them with the acquired ones; a manual search issues no
\* location request.
C16_CoordinatesFrame ==
    [][ /\ userLocation' # userLocation => event'.op = "geoSuccess"
        /\ event'.op = "geoSuccess" => userLocation' = event'.coords
        /\ event'.op = "manualSearch" => OfKind(inflight', "geo") = OfKind(inflight, "geo")
      ]_vars

C16_Witness ==
    /\ event.op = "geoSuccess" /\ userLocation = event.coords
    /\ Len(inflight) = 1 /\ inflight[1].kind = "byCoordinates"

\* C17: a search is started only from a state with loading false (button
\* disabled, form not rendered otherwise), so at most one request is in flight.
C17_NoOverlapThroughUI ==
    /\ [](Len(inflight) <= 1)
    /\ [][event'.op \in StartOps => ~loading]_vars

C17_Witness ==
    /\ loading /\ showManualInput
    /\ Len(inflight) = 1 /\ inflight[1].kind = "byQuery"

\* C18: loading is true exactly when a location request or a provider call is
\* outstanding.
C18_LoadingIffOutstanding == loading <=> inflight # <<>>

C18_Witness ==
    /\ loading /\ Len(inflight) = 1 /\ inflight[1].kind = "geo"

\* C19: a blank manual search changes errorMessage and nothing else of the
\* session, so results displayed before stay.
C19_BlankGuardFrame ==
    [][(event'.op = "manualSearch" /\ IsBlank(event'.text))
         => UNCHANGED <<restaurants, loading, showManualInput, userLocation,
                        manualLocation, inflight>>]_vars

C19_Witness ==
    /\ event.op = "manualSearch" /\ IsBlank(event.text)
    /\ restaurants # <<>> /\ error = uiText["manualLocationError"]

\* C20: a language change issues no request and leaves restaurants,
\* errorMessage, loading, showManualEntry and the manual query as they were; a
\* request carries the language and the texts of the render that triggered its
\* search, the provider call after a location success is made with that
\* language, and a failure message is taken from those texts.
C20_LanguageFrame ==
    [][ /\ event'.op = "setLanguage"
            => UNCHANGED <<restaurants, error, loading, showManualInput,
                           manualLocation, userLocation, inflight>>
        /\ Len(inflight') > Len(inflight)
            => /\ inflight'[Len(inflight')].language = language
               /\ inflight'[Len(inflight')].uiText = uiText
        /\ event'.op = "geoSuccess"
            => \E i \in 1 .. Len(inflight) :
                   /\ inflight[i].kind = "geo" /\ inflight'[i].kind = "byCoordinates"
                   /\ inflight'[i].language = inflight[i].language
                   /\ inflight'[i].uiText = inflight[i].uiText
        /\ event'.op \in {"geoError", "fetchRestaurantsRejected", "fetchByQueryRejected"}
            => \E i \in 1 .. Len(inflight), k \in TextKeys : error' = inflight[i].uiText[k]
      ]_vars

C20_Witness ==
    /\ event.op = "fetchRestaurantsRejected"
    /\ error \in MessagesOf("fetchError") /\ error # uiText["fetchError"]

\* C15: the welcome placeholder is rendered only when loading is false,
\* errorMessage is null, restaurants is empty, showManualEntry is false and no
\* earlier search of the session has produced a non-empty result or an error.
C15_WelcomeOnlyBeforeOutcome ==
    WelcomeRendered
      => /\ ~loading /\ error = Null /\ restaurants = <<>> /\ ~showManualInput
         /\ ~produced

\* C15, amended: the placeholder is rendered in the initial state, and it
\* comes back only when the provider call of an automatic search returns the
\* empty list, whatever earlier searches produced.
C15_WelcomeReappears ==
    /\ WelcomeRendered
    /\ [][(~WelcomeRendered /\ WelcomeRendered')
            => (event'.op = "fetchRestaurantsResolved" /\ event'.response = <<>>)]_vars

C15_Witness ==
    /\ WelcomeRendered /\ produced
    /\ event.op = "fetchRestaurantsResolved" /\ event.response = <<>>

\* the state right after the last of the outstanding requests has completed
AllResolved == inflight = <<>> /\ event.op \in TerminalOps

=============================================================================
